---- MODULE Spec2Model ----
(***************************************************************************)
(* A model of the abow visual vocabulary: the recursive k-means build      *)
(* (Vocabulary::create / cluster), the tree descent (transform_inner) and  *)
(* the bincode persistence (save / load).                                  *)
(*                                                                         *)
(* Descriptors are scaled down: the source's Desc is [u8; 32] and hamming  *)
(* accumulates in a u8, so the accumulator holds 0 .. 255 while two        *)
(* descriptors can differ in 256 bits.  The model keeps that relation:     *)
(* a descriptor has DescBytes bytes of ByteBits bits and the accumulator   *)
(* holds 0 .. DescBytes * ByteBits - 1.                                    *)
(***************************************************************************)
EXTENDS Integers, Sequences, FiniteSets, TLC

\* ---------------------------------------------------------------- bounds
DescBytes == 3
ByteBits == 1
MaxFeatures == 3
MaxK == 3
MaxLevels == 3
MaxQuery == 1
MaxSeedFeatures == 4
MaxBow == 3
MaxWeight == 2
IdBits == 3

\* ------------------------------------------------------------ descriptors
RECURSIVE Pow2(_)
Pow2(n) == IF n = 0 THEN 1 ELSE 2 * Pow2(n - 1)

ByteVals == 0 .. (Pow2(ByteBits) - 1)

\* lib.rs: pub type Desc = [u8; 32]
Desc == [1 .. DescBytes -> ByteVals]

\* [0_u8; size_of::<Desc>()]
ZeroDesc == [i \in 1 .. DescBytes |-> 0]

\* vocab.rs hamming: the accumulator type is u8
U8Mod == DescBytes * ByteBits
U8Max == U8Mod - 1

\* bit j (0 = most significant, Msb0) of byte b
BitOf(b, j) == (b \div Pow2(ByteBits - 1 - j)) % 2

\* (b ^ c).count_ones()
RECURSIVE XorCountOnes(_, _, _)
XorCountOnes(b, c, j) ==
  IF j = ByteBits THEN 0
  ELSE (IF BitOf(b, j) # BitOf(c, j) THEN 1 ELSE 0) + XorCountOnes(b, c, j + 1)

\* The number of bit positions in which x and y differ (unbounded integer).
BitDiff(x, y) ==
  LET RECURSIVE Sum(_)
      Sum(i) == IF i > DescBytes THEN 0
                ELSE XorCountOnes(x[i], y[i], 0) + Sum(i + 1)
  IN Sum(1)

\* hamming with overflow checks off: the u8 fold wraps around.
hammingWrap(x, y) ==
  LET RECURSIVE Fold(_, _)
      Fold(i, a) == IF i > DescBytes THEN a
                    ELSE Fold(i + 1, (a + XorCountOnes(x[i], y[i], 0)) % U8Mod)
  IN Fold(1, 0)

\* hamming with overflow checks on: does the u8 addition overflow (panic)?
hammingOverflows(x, y) ==
  LET RECURSIVE Fold(_, _)
      Fold(i, a) == IF i > DescBytes THEN FALSE
                    ELSE IF a + XorCountOnes(x[i], y[i], 0) > U8Max THEN TRUE
                    ELSE Fold(i + 1, a + XorCountOnes(x[i], y[i], 0))
  IN Fold(1, 0)

\* Both folds tabulated once over all pairs of descriptors.
hammingTable ==
  [x \in Desc |-> [y \in Desc |->
     [wrap |-> hammingWrap(x, y), overflows |-> hammingOverflows(x, y)]]]

\* hamming(x, y) as the release build returns it
hamming(x, y) == hammingTable[x][y].wrap

\* hamming(x, y) panics in a build with overflow checks
hammingPanics(x, y) == hammingTable[x][y].overflows

\* ------------------------------------------------------------- sequences
Range(s) == {s[i] : i \in 1 .. Len(s)}

SeqsUpTo(S, n) == UNION {[1 .. m -> S] : m \in 0 .. n}

\* Vec::remove(i), i counted from 1
RemoveAt(s, i) == [j \in 1 .. (Len(s) - 1) |-> IF j < i THEN s[j] ELSE s[j + 1]]

\* lexicographic order of byte arrays (Ord for [u8; N])
DescLess(x, y) ==
  \E i \in 1 .. DescBytes :
    /\ x[i] < y[i]
    /\ \A j \in 1 .. (i - 1) : x[j] = y[j]

\* sort_unstable followed by dedup: the distinct descriptors in ascending order
RECURSIVE SortSet(_)
SortSet(S) ==
  IF S = {} THEN <<>>
  ELSE LET m == CHOOSE x \in S : \A y \in S : y = x \/ DescLess(x, y)
       IN <<m>> \o SortSet(S \ {m})

SortDedup(features) == SortSet(Range(features))

Min2(a, b) == IF a < b THEN a ELSE b

\* ------------------------------------------------------------- node ids
\* enum NodeId { Block(usize), Leaf(IdPath) }
NodeBlock(i) == [tag |-> "Block", bid |-> i]
NodeLeaf(p) == [tag |-> "Leaf", path |-> p]
IsBlockId(n) == n.tag = "Block"
IsLeafId(n) == n.tag = "Leaf"

\* Vocabulary::empty
empty(k, l) ==
  [blocks |-> <<>>, k |-> k, levels |-> l, num_blocks |-> 0, num_leaves |-> 0]

\* ------------------------------------------------------- cluster seeding
PanicOutcome == [panic |-> TRUE, clusters |-> <<>>]
OkOutcome(c) == [panic |-> FALSE, clusters |-> c]

\* Step 2 of init_kmeanspp: distance of features[i] to the nearest centroid,
\* starting from u8::MAX as f32.
KppDist(f, centroids) ==
  LET RECURSIVE Fold(_, _)
      Fold(c, d) == IF c > Len(centroids) THEN d
                    ELSE Fold(c + 1, Min2(hamming(f, centroids[c]), d))
  IN Fold(1, U8Max)

\* The while loop of init_kmeanspp: every result the random draws can give.
\* WeightedIndex::new fails (and expect panics) when there is no candidate or
\* every weight is zero; a draw returns an index of non-zero weight.
RECURSIVE KppLoop(_, _, _, _)
KppLoop(features, centroids, k, oc) ==
  IF Len(centroids) >= k THEN {OkOutcome(centroids)}
  ELSE IF oc /\ \E i \in 1 .. Len(features), c \in 1 .. Len(centroids) :
                   hammingPanics(features[i], centroids[c])
  THEN {PanicOutcome}
  ELSE LET dists == [i \in 1 .. Len(features) |-> KppDist(features[i], centroids)]
           cand == {i \in 1 .. Len(features) : dists[i] > 0}
       IN IF cand = {} THEN {PanicOutcome}
          ELSE UNION {KppLoop(RemoveAt(features, i), Append(centroids, features[i]), k, oc)
                        : i \in cand}

init_kmeanspp(features, k, oc) ==
  UNION {KppLoop(RemoveAt(features, r), <<features[r]>>, k, oc) : r \in 1 .. Len(features)}

\* Every value initialize_clusters can return (or a panic) for this input.
initialize_clusters(features, k, oc) ==
  IF Len(features) <= k THEN {OkOutcome(features)}
  ELSE LET deduped == SortDedup(features)
       IN IF Len(deduped) <= k THEN {OkOutcome(deduped)}
          ELSE init_kmeanspp(features, k, oc)

\* ------------------------------------------------------- Lloyd iteration
\* The inner loop of cluster over the clusters: the index (from 1) of the
\* first cluster with the smallest distance below u8::MAX, else the first.
BestCluster(f, clusters) ==
  LET RECURSIVE Fold(_, _, _)
      Fold(j, bj, bd) ==
        IF j > Len(clusters) THEN bj
        ELSE LET d == hamming(clusters[j], f)
             IN IF d < bd THEN Fold(j + 1, j, d) ELSE Fold(j + 1, bj, bd)
  IN Fold(1, 1, U8Max)

\* new_groups: group j lists, in input order, the features assigned to j
Assign(features, clusters, n) ==
  LET best == [i \in 1 .. Len(features) |-> BestCluster(features[i], clusters)]
      RECURSIVE Members(_, _)
      Members(j, i) ==
        IF i > Len(features) THEN <<>>
        ELSE (IF best[i] = j THEN <<i>> ELSE <<>>) \o Members(j, i + 1)
  IN [j \in 1 .. n |-> Members(j, 1)]

AssignOverflows(features, clusters) ==
  \E i \in 1 .. Len(features), j \in 1 .. Len(clusters) :
    hammingPanics(clusters[j], features[i])

\* desc_mean: per-bit majority vote, a bit is set iff its count exceeds len / 2
desc_mean(descriptors) ==
  LET n2 == Len(descriptors) \div 2
      count(b, j) == Cardinality({i \in 1 .. Len(descriptors) :
                                    BitOf(descriptors[i][b], j) = 1})
      RECURSIVE ByteVal(_, _)
      ByteVal(b, j) ==
        IF j = ByteBits THEN 0
        ELSE (IF count(b, j) > n2 THEN Pow2(ByteBits - 1 - j) ELSE 0) + ByteVal(b, j + 1)
  IN [b \in 1 .. DescBytes |-> ByteVal(b, 0)]

GroupDescs(features, group) == [i \in 1 .. Len(group) |-> features[group[i]]]

UpdateClusters(features, new_groups) ==
  [j \in 1 .. Len(new_groups) |-> desc_mean(GroupDescs(features, new_groups[j]))]

\* groups.retain(|g| !g.is_empty())
RECURSIVE RetainGroups(_)
RetainGroups(gs) ==
  IF gs = <<>> THEN <<>>
  ELSE (IF Head(gs) # <<>> THEN <<Head(gs)>> ELSE <<>>) \o RetainGroups(Tail(gs))

\* clusters.retain(|c| c != &[0_u8; size_of::<Desc>()])
RECURSIVE RetainClusters(_)
RetainClusters(cs) ==
  IF cs = <<>> THEN <<>>
  ELSE (IF Head(cs) # ZeroDesc THEN <<Head(cs)>> ELSE <<>>) \o RetainClusters(Tail(cs))

\* next_node_id with the root kept in the leaf path (parent_ids, not parent_ids[1..])
next_node_id_KeepsRoot(voc, leaf, parent_ids) ==
  IF leaf
  THEN [id |-> NodeLeaf(parent_ids \o <<voc.num_leaves>>),
        voc |-> [voc EXCEPT !.num_leaves = voc.num_leaves + 1]]
  ELSE [id |-> NodeBlock(voc.num_blocks + 1),
        voc |-> [voc EXCEPT !.num_blocks = voc.num_blocks + 1]]

\* next_node_id without the increment of num_leaves
next_node_id_ReusesLeafId(voc, leaf, parent_ids) ==
  IF leaf
  THEN [id |-> NodeLeaf(SubSeq(parent_ids, 2, Len(parent_ids)) \o <<voc.num_leaves>>),
        voc |-> voc]
  ELSE [id |-> NodeBlock(voc.num_blocks + 1),
        voc |-> [voc EXCEPT !.num_blocks = voc.num_blocks + 1]]

\* next_node_id: the id handed out and the counters after it
next_node_id(voc, leaf, parent_ids) ==
  IF leaf
  THEN [id |-> NodeLeaf(SubSeq(parent_ids, 2, Len(parent_ids)) \o <<voc.num_leaves>>),
        voc |-> [voc EXCEPT !.num_leaves = voc.num_leaves + 1]]
  ELSE [id |-> NodeBlock(voc.num_blocks + 1),
        voc |-> [voc EXCEPT !.num_blocks = voc.num_blocks + 1]]

\* The map over groups in cluster that draws one id per group, in order.
RECURSIVE AssignIds(_, _, _, _, _)
AssignIds(voc, gs, i, curr_level, parent_ids) ==
  IF i > Len(gs) THEN [ids |-> <<>>, voc |-> voc]
  ELSE LET r == next_node_id(voc, curr_level = voc.levels \/ Len(gs[i]) = 1, parent_ids)
           rest == AssignIds(r.voc, gs, i + 1, curr_level, parent_ids)
       IN [ids |-> <<r.id>> \o rest.ids, voc |-> rest.voc]

\* cluster without its recursion into the Block children
ChildCalls_NotRecursing(features, gs, ids, parent_ids, curr_level) == <<>>

\* The recursive calls of cluster, in call order.
ChildCalls(features, gs, ids, parent_ids, curr_level) ==
  LET RECURSIVE Calls(_)
      Calls(i) ==
        IF i > Len(ids) THEN <<>>
        ELSE (IF IsBlockId(ids[i])
              THEN <<[features |-> GroupDescs(features, gs[i]),
                      parent_ids |-> Append(parent_ids, ids[i].bid),
                      curr_level |-> curr_level + 1]>>
              ELSE <<>>) \o Calls(i + 1)
  IN Calls(1)

\* v.blocks.sort_by(|a, b| a.id.get_bid().cmp(&b.id.get_bid())), a stable sort
RECURSIVE SortBlocks(_)
SortBlocks(bs) ==
  IF bs = <<>> THEN <<>>
  ELSE LET m == CHOOSE i \in 1 .. Len(bs) :
                  /\ \A j \in 1 .. Len(bs) : bs[i].id.bid <= bs[j].id.bid
                  /\ \A j \in 1 .. (i - 1) : bs[j].id.bid # bs[i].id.bid
       IN <<bs[m]>> \o SortBlocks(RemoveAt(bs, m))

\* ---------------------------------------------------------------- state
VARIABLES
  overflow_checks,  \* build profile: TRUE = u8 overflow panics, FALSE = it wraps
  phase,            \* "idle", "enter", "lloyd", "created", "panicked"
  v,                \* the Vocabulary under construction / constructed
  train,            \* the features create was called with
  stack,            \* the pending calls of cluster, next call first
  frame,            \* arguments of the running call of cluster
  clusters,         \* its local clusters
  groups,           \* its local groups
  out,              \* result of the last transform call
  file,             \* contents of the vocabulary file
  loaded,           \* result of the last load call
  helper            \* last direct call of a helper function and its result

vars == <<overflow_checks, phase, v, train, stack, frame, clusters, groups,
          out, file, loaded, helper>>

NoFrame == [features |-> <<>>, parent_ids |-> <<>>, curr_level |-> 0]
NoOut == [call |-> "none", features |-> <<>>, res |-> [kind |-> "none"]]
NoFile == [exists |-> FALSE, bytes |-> <<>>]
NoLoad == [kind |-> "none"]
NoHelper == [fn |-> "none"]

Init ==
  /\ overflow_checks \in BOOLEAN
  /\ phase = "idle"
  /\ v = empty(0, 0)
  /\ train = <<>>
  /\ stack = <<>>
  /\ frame = NoFrame
  /\ clusters = <<>>
  /\ groups = <<>>
  /\ out = NoOut
  /\ file = NoFile
  /\ loaded = NoLoad
  /\ helper = NoHelper

\* ---------------------------------------------------------------- build
\* Vocabulary::create up to its call of cluster(features, vec![0], 1)
Create(features, k, l) ==
  /\ phase = "idle"
  /\ v' = empty(k, l)
  /\ train' = features
  /\ stack' = <<[features |-> features, parent_ids |-> <<0>>, curr_level |-> 1]>>
  /\ phase' = "enter"
  /\ UNCHANGED <<helper, overflow_checks, frame, clusters, groups, out, file, loaded>>

\* Entry of cluster: initialize_clusters and the empty groups
ClusterEnter ==
  /\ phase = "enter"
  /\ \E o \in initialize_clusters(Head(stack).features, v.k, overflow_checks) :
       IF o.panic
       THEN /\ phase' = "panicked"
            /\ UNCHANGED <<stack, frame, clusters, groups>>
       ELSE /\ phase' = "lloyd"
            /\ frame' = Head(stack)
            /\ stack' = Tail(stack)
            /\ clusters' = o.clusters
            /\ groups' = [j \in 1 .. Len(o.clusters) |-> <<>>]
  /\ UNCHANGED <<helper, overflow_checks, v, train, out, file, loaded>>

\* A hamming call of the assignment loop overflows its u8 and panics
LloydPanic ==
  /\ phase = "lloyd"
  /\ overflow_checks
  /\ AssignOverflows(frame.features, clusters)
  /\ phase' = "panicked"
  /\ UNCHANGED <<helper, overflow_checks, v, train, stack, frame, clusters, groups,
                 out, file, loaded>>

\* One round of the loop of cluster, as the values it leaves.  Not converged:
\* update clusters and groups.  Converged: the rest of cluster up to its
\* recursive calls; after the last call of cluster returns, create sorts the
\* blocks and returns.
LloydStep(voc, fr, st, cl, gr) ==
  LET new_groups == Assign(fr.features, cl, Len(gr))
      gs == RetainGroups(gr)
      cs == RetainClusters(cl)
      r == AssignIds(voc, gs, 1, fr.curr_level, fr.parent_ids)
      children == [features |-> cs,
                   weights |-> [i \in 1 .. Len(gs) |-> 1],
                   cluster_size |-> [i \in 1 .. Len(gs) |-> Len(gs[i])],
                   ids |-> r.ids]
      block == [id |-> NodeBlock(fr.parent_ids[Len(fr.parent_ids)]),
                children |-> children]
      blocks1 == Append(voc.blocks, block)
      calls == IF fr.curr_level < voc.levels
               THEN ChildCalls(fr.features, gs, r.ids, fr.parent_ids, fr.curr_level)
               ELSE <<>>
      stack1 == calls \o st
  IN IF gr # new_groups
     THEN [phase |-> "lloyd", v |-> voc, stack |-> st,
           clusters |-> UpdateClusters(fr.features, new_groups),
           groups |-> new_groups]
     ELSE IF Len(gs) # Len(cs)
     THEN \* assert_eq!(groups.len(), clusters.len()) fails
          [phase |-> "panicked", v |-> voc, stack |-> st, clusters |-> cl,
           groups |-> gr]
     ELSE IF stack1 = <<>>
     THEN [phase |-> "created", v |-> [r.voc EXCEPT !.blocks = SortBlocks(blocks1)],
           stack |-> stack1, clusters |-> cs, groups |-> gs]
     ELSE [phase |-> "enter", v |-> [r.voc EXCEPT !.blocks = blocks1],
           stack |-> stack1, clusters |-> cs, groups |-> gs]

LloydRound ==
  /\ phase = "lloyd"
  /\ ~(overflow_checks /\ AssignOverflows(frame.features, clusters))
  /\ \E nx \in {LloydStep(v, frame, stack, clusters, groups)} :
       /\ phase' = nx.phase
       /\ v' = nx.v
       /\ stack' = nx.stack
       /\ clusters' = nx.clusters
       /\ groups' = nx.groups
  /\ UNCHANGED <<helper, overflow_checks, train, frame, out, file, loaded>>

\* ------------------------------------------------------------ transform
\* The for loop over block.children.features: the index (from 0) of the first
\* child with the smallest distance below u8::MAX, else 0.
best_child(feature, child_features) ==
  LET RECURSIVE Fold(_, _, _)
      Fold(c, bd, bc) ==
        IF c > Len(child_features) THEN bc
        ELSE LET d == hamming(feature, child_features[c])
             IN IF d < bd THEN Fold(c + 1, d, c - 1) ELSE Fold(c + 1, bd, bc)
  IN Fold(1, U8Max, 0)

\* The loop "traverse tree" for one feature, from blocks[b].  visited is the
\* list of block ids entered below the root so far; fuel bounds the walk by the
\* number of blocks (a longer walk repeats a block and never ends).
RECURSIVE Descend(_, _, _, _, _, _)
Descend(voc, feature, b, visited, fuel, oc) ==
  IF b >= Len(voc.blocks) THEN [kind |-> "panic"]
  ELSE IF fuel = 0 THEN [kind |-> "hang"]
  ELSE LET block == voc.blocks[b + 1]
           feats == block.children.features
           bc == best_child(feature, feats)
       IN IF oc /\ \E c \in 1 .. Len(feats) : hammingPanics(feature, feats[c])
          THEN [kind |-> "panic"]
          ELSE IF bc >= Len(block.children.ids) THEN [kind |-> "panic"]
          ELSE LET id == block.children.ids[bc + 1]
               IN IF IsBlockId(id)
                  THEN Descend(voc, feature, id.bid, Append(visited, id.bid), fuel - 1, oc)
                  ELSE IF id.path = <<>> THEN [kind |-> "panic"]
                  ELSE [kind |-> "leaf", ids |-> id.path,
                        word_id |-> id.path[Len(id.path)],
                        weight |-> block.children.weights[bc + 1],
                        visited |-> visited]

\* The for loop over features: bow before normalisation, the direct index and
\* (for the record) the blocks each descent entered.
RECURSIVE TransformLoop(_, _, _, _, _, _)
TransformLoop(voc, features, i, di, acc, oc) ==
  IF i > Len(features) THEN acc
  ELSE LET r == Descend(voc, features[i], 0, <<>>, Len(voc.blocks), oc)
       IN IF r.kind # "leaf" THEN [acc EXCEPT !.kind = r.kind]
          ELSE IF r.word_id >= Len(acc.bow) THEN [acc EXCEPT !.kind = "panic"]
          ELSE TransformLoop(voc, features, i + 1, di,
                 [acc EXCEPT !.bow[r.word_id + 1] = @ + r.weight,
                             !.direct_idx = IF di THEN Append(@, r.ids) ELSE @,
                             !.visited = Append(@, r.visited)],
                 oc)

RECURSIVE SumSeq(_)
SumSeq(s) == IF s = <<>> THEN 0 ELSE Head(s) + SumSeq(Tail(s))

\* "Normalize BoW vector": every entry times 1 / sum when sum > 0.  Entries are
\* kept as exact fractions num / den (f32 rounding is not modelled).
Normalize(bow) ==
  LET sum == SumSeq(bow)
  IN IF sum > 0 THEN [w \in 1 .. Len(bow) |-> [num |-> bow[w], den |-> sum]]
     ELSE [w \in 1 .. Len(bow) |-> [num |-> bow[w], den |-> 1]]

\* transform_inner after its check of features.is_empty()
transform_features(voc, features, di, oc) ==
  LET acc0 == [kind |-> "Ok", bow |-> [w \in 1 .. voc.num_leaves |-> 0],
               direct_idx |-> <<>>, visited |-> <<>>]
      acc == TransformLoop(voc, features, 1, di, acc0, oc)
  IN IF acc.kind # "Ok" THEN [kind |-> acc.kind]
     ELSE [kind |-> "Ok", bow |-> Normalize(acc.bow),
           direct_idx |-> acc.direct_idx, visited |-> acc.visited]

\* transform_inner without the check of features.is_empty()
transform_inner_NoEmptyCheck(voc, features, di, oc) ==
  transform_features(voc, features, di, oc)

\* transform_inner
transform_inner(voc, features, di, oc) ==
  IF features = <<>> THEN [kind |-> "NoFeatures"]
  ELSE transform_features(voc, features, di, oc)

\* Vocabulary::transform (di = FALSE: the direct index is dropped) and
\* Vocabulary::transform_with_direct_idx (di = TRUE) on the created vocabulary
Transform(features, di) ==
  /\ phase = "created"
  /\ out' = [call |-> IF di THEN "transform_with_direct_idx" ELSE "transform",
             features |-> features,
             res |-> transform_inner(v, features, di, overflow_checks)]
  /\ UNCHANGED <<helper, overflow_checks, phase, v, train, stack, frame, clusters, groups,
                 file, loaded>>

\* ---------------------------------------------------------- persistence
\* bincode::serialize(&self) through the derived Serialize impls.  The stream
\* is a sequence of fixed-width fields, one element per field (the bytes of a
\* field are not spelt out): a usize or a Vec length is a u64, an enum variant
\* is a u32 tag (Block = 0, Leaf = 1), a Vec / IdPath is its length followed by
\* its elements, a Desc is its bytes without a length, a struct is its fields
\* in declaration order.
RECURSIVE Flatten(_)
Flatten(ss) == IF ss = <<>> THEN <<>> ELSE Head(ss) \o Flatten(Tail(ss))

EncVec(items) == <<Len(items)>> \o Flatten(items)

EncNodeId(n) ==
  IF IsBlockId(n) THEN <<0, n.bid>>
  ELSE <<1>> \o EncVec([i \in 1 .. Len(n.path) |-> <<n.path[i]>>])

\* Children serialized without the cluster_size field
EncChildren_SkipsClusterSize(c) ==
  EncVec([i \in 1 .. Len(c.features) |-> c.features[i]])
  \o EncVec([i \in 1 .. Len(c.weights) |-> <<c.weights[i]>>])
  \o EncVec([i \in 1 .. Len(c.ids) |-> EncNodeId(c.ids[i])])

EncChildren(c) ==
  EncVec([i \in 1 .. Len(c.features) |-> c.features[i]])
  \o EncVec([i \in 1 .. Len(c.weights) |-> <<c.weights[i]>>])
  \o EncVec([i \in 1 .. Len(c.cluster_size) |-> <<c.cluster_size[i]>>])
  \o EncVec([i \in 1 .. Len(c.ids) |-> EncNodeId(c.ids[i])])

EncBlock(b) == EncNodeId(b.id) \o EncChildren(b.children)

Encode(voc) ==
  EncVec([i \in 1 .. Len(voc.blocks) |-> EncBlock(voc.blocks[i])])
  \o <<voc.k, voc.levels, voc.num_blocks, voc.num_leaves>>

\* bincode::deserialize(&buffer) through the derived Deserialize impls.  A
\* decoder takes the state of the read, [ok, vals, rest] (the values decoded
\* so far and the rest of the stream), and returns it with one more value; a
\* short stream or an unknown variant tag is a deserialization error.
DecStart(s) == [ok |-> TRUE, vals |-> <<>>, rest |-> s]
DecFail == [ok |-> FALSE, vals |-> <<>>, rest |-> <<>>]
DecPut(st, x, rest) == [ok |-> TRUE, vals |-> Append(st.vals, x), rest |-> rest]

\* one fixed-width field (u64, u32, f32, u8)
DecField(st) ==
  IF ~st.ok \/ st.rest = <<>> THEN DecFail
  ELSE DecPut(st, Head(st.rest), Tail(st.rest))

\* Vec<usize>, Vec<f32>, IdPath: a length and that many fields
DecFieldVec(st) ==
  IF ~st.ok \/ st.rest = <<>> THEN DecFail
  ELSE IF Len(st.rest) - 1 < Head(st.rest) THEN DecFail
  ELSE DecPut(st, SubSeq(st.rest, 2, Head(st.rest) + 1),
              SubSeq(st.rest, Head(st.rest) + 2, Len(st.rest)))

\* Vec<Desc>: a length and that many descriptors of size_of::<Desc>() bytes
DecDescVec(st) ==
  IF ~st.ok \/ st.rest = <<>> THEN DecFail
  ELSE IF Len(st.rest) - 1 < Head(st.rest) * DescBytes THEN DecFail
  ELSE DecPut(st,
              [i \in 1 .. Head(st.rest) |->
                 SubSeq(st.rest, 2 + (i - 1) * DescBytes, 1 + i * DescBytes)],
              SubSeq(st.rest, Head(st.rest) * DescBytes + 2, Len(st.rest)))

\* NodeId::Leaf: the payload q decoded by DecFieldVec
DecLeaf(st, q) ==
  IF ~q.ok THEN DecFail ELSE DecPut(st, NodeLeaf(q.vals[1]), q.rest)

\* NodeId: the variant tag, then the payload of that variant
DecNodeId(st) ==
  IF ~st.ok \/ st.rest = <<>> THEN DecFail
  ELSE IF Head(st.rest) = 0
       THEN IF Len(st.rest) < 2 THEN DecFail
            ELSE DecPut(st, NodeBlock(st.rest[2]), SubSeq(st.rest, 3, Len(st.rest)))
  ELSE IF Head(st.rest) = 1
       THEN DecLeaf(st, DecFieldVec(DecStart(Tail(st.rest))))
  ELSE DecFail

RECURSIVE DecNodeIdLoop(_, _)
DecNodeIdLoop(cur, n) == IF n = 0 THEN cur ELSE DecNodeIdLoop(DecNodeId(cur), n - 1)

\* the value of a Vec, from the read cur of its elements
DecVecEnd(st, cur) == IF ~cur.ok THEN DecFail ELSE DecPut(st, cur.vals, cur.rest)

\* Vec<NodeId>
DecNodeIdVec(st) ==
  IF ~st.ok \/ st.rest = <<>> THEN DecFail
  ELSE DecVecEnd(st, DecNodeIdLoop(DecStart(Tail(st.rest)), Head(st.rest)))

\* Children from the read of its four fields
DecChildrenEnd(st, cur) ==
  IF ~cur.ok THEN DecFail
  ELSE DecPut(st, [features |-> cur.vals[1], weights |-> cur.vals[2],
                   cluster_size |-> cur.vals[3], ids |-> cur.vals[4]], cur.rest)

DecChildren(st) ==
  IF ~st.ok THEN DecFail
  ELSE DecChildrenEnd(st,
         DecNodeIdVec(DecFieldVec(DecFieldVec(DecDescVec(DecStart(st.rest))))))

\* Block from the read of its two fields
DecBlockEnd(st, cur) ==
  IF ~cur.ok THEN DecFail
  ELSE DecPut(st, [id |-> cur.vals[1], children |-> cur.vals[2]], cur.rest)

DecBlock(st) ==
  IF ~st.ok THEN DecFail
  ELSE DecBlockEnd(st, DecChildren(DecNodeId(DecStart(st.rest))))

RECURSIVE DecBlockLoop(_, _)
DecBlockLoop(cur, n) == IF n = 0 THEN cur ELSE DecBlockLoop(DecBlock(cur), n - 1)

\* Vec<Block>
DecBlockVec(st) ==
  IF ~st.ok \/ st.rest = <<>> THEN DecFail
  ELSE DecVecEnd(st, DecBlockLoop(DecStart(Tail(st.rest)), Head(st.rest)))

\* Vocabulary from the read of its five fields
DecodeEnd(cur) ==
  IF ~cur.ok THEN [kind |-> "Bincode"]
  ELSE [kind |-> "Ok",
        voc |-> [blocks |-> cur.vals[1], k |-> cur.vals[2], levels |-> cur.vals[3],
                 num_blocks |-> cur.vals[4], num_leaves |-> cur.vals[5]]]

Decode(s) ==
  DecodeEnd(DecField(DecField(DecField(DecField(DecBlockVec(DecStart(s)))))))

\* Vocabulary::save: serialize, create the file, write all
Save ==
  /\ phase = "created"
  /\ file' = [exists |-> TRUE, bytes |-> Encode(v)]
  /\ UNCHANGED <<helper, overflow_checks, phase, v, train, stack, frame, clusters, groups,
                 out, loaded>>

\* Vocabulary::load: open the file (an Io error when there is none), read to
\* the end, deserialize.  The only file is the one save writes, so the call
\* is placed after the build.
Load ==
  /\ phase = "created"
  /\ loaded' = IF file.exists THEN Decode(file.bytes) ELSE [kind |-> "Io"]
  /\ UNCHANGED <<helper, overflow_checks, phase, v, train, stack, frame, clusters, groups,
                 out, file>>

\* ------------------------------------------- helpers called on their own
\* The helper functions are pure: each is called once per behaviour on inputs
\* drawn from bounded sets, and helper records the call and what it returned.

\* hamming(x, y) -> u8: the fold panics on overflow in a build with overflow
\* checks and wraps around in a build without.
Hamming(x, y) ==
  /\ helper = NoHelper
  /\ helper' = [fn |-> "hamming", x |-> x, y |-> y,
                res |-> IF overflow_checks /\ hammingPanics(x, y)
                        THEN [kind |-> "panic"]
                        ELSE [kind |-> "ok", val |-> hamming(x, y)]]
  /\ UNCHANGED <<overflow_checks, phase, v, train, stack, frame, clusters, groups,
                 out, file, loaded>>

\* (b - c).abs()
AbsDiff(b, c) == IF b < c THEN c - b ELSE b - c

\* BoWTrait::l1 for BoW: 1. - 0.5 * (the fold over self.iter().zip(other)).
\* zip ends with the shorter of the two vectors.  The entries are whole
\* numbers (exact in f32), so the score is a multiple of one half: num / den.
l1(self, other) ==
  LET n == Min2(Len(self), Len(other))
      RECURSIVE Fold(_, _)
      Fold(i, a) == IF i > n THEN a ELSE Fold(i + 1, a + AbsDiff(self[i], other[i]))
  IN [kind |-> "score", num |-> 2 - Fold(1, 0), den |-> 2]

L1(self, other) ==
  /\ helper = NoHelper
  /\ helper' = [fn |-> "l1", self |-> self, other |-> other, res |-> l1(self, other)]
  /\ UNCHANGED <<overflow_checks, phase, v, train, stack, frame, clusters, groups,
                 out, file, loaded>>

\* load_fow.rs: a child id of the legacy format is a u32 whose high bit
\* (0x80000000) flags a leaf and whose other bits (0x7FFFFFFF) are the id.
\* The model's id has IdBits bits.
LeafFlag == Pow2(IdBits - 1)
IdMask == LeafFlag - 1

\* id & mask for the two masks above
AndLeafFlag(id) == IF id >= LeafFlag THEN LeafFlag ELSE 0
AndIdMask(id) == id % LeafFlag

\* NodeId::Leaf(n as usize) as load_fow.rs builds it
NodeLeafId(n) == [tag |-> "Leaf", id |-> n]

\* Block::load on one block record, given by its fields: the block id
\* (bytes[4..8]), the feature region and the child table (per child an id and
\* a weight).  Both arms of the match on leaf push NodeId::Leaf.
BlockLoadFow(rec, m_k) ==
  [id |-> NodeBlock(rec.id),
   children |->
     [features |-> rec.features,
      weights |-> [i \in 1 .. m_k |-> rec.table[i].w],
      cluster_size |-> <<>>,
      ids |-> [i \in 1 .. m_k |->
                 LET id == rec.table[i].id
                     leaf == AndLeafFlag(id) # 0
                 IN IF leaf THEN NodeLeafId(AndIdMask(id))
                    ELSE NodeLeafId(AndIdMask(id))]]]

BlockLoad(rec, m_k) ==
  /\ helper = NoHelper
  /\ helper' = [fn |-> "Block::load", rec |-> rec, m_k |-> m_k,
                res |-> BlockLoadFow(rec, m_k)]
  /\ UNCHANGED <<overflow_checks, phase, v, train, stack, frame, clusters, groups,
                 out, file, loaded>>

\* initialize_clusters(features, ClusterInitMethod::KMeansPP) on a vocabulary
\* with this k: one of the results the random draws can give.
InitializeClusters(features, k) ==
  /\ helper = NoHelper
  /\ \E o \in initialize_clusters(features, k, overflow_checks) :
       helper' = [fn |-> "initialize_clusters", features |-> features, k |-> k,
                  res |-> o]
  /\ UNCHANGED <<overflow_checks, phase, v, train, stack, frame, clusters, groups,
                 out, file, loaded>>

\* -------------------------------------------------------- specifications
KRange == 2 .. MaxK
LevelRange == 1 .. MaxLevels
TrainSets == SeqsUpTo(Desc, MaxFeatures)

Build ==
  \/ /\ phase = "idle"
     /\ \E features \in TrainSets, k \in KRange, l \in LevelRange : Create(features, k, l)
  \/ ClusterEnter
  \/ LloydPanic
  \/ LloydRound

Queries == SeqsUpTo(Desc, MaxQuery) \cup {train}

\* transform takes &self and leaves the vocabulary as it is, so the result of a
\* call does not depend on earlier calls: one call per behaviour reaches them all.
Query ==
  /\ phase = "created"
  /\ out = NoOut
  /\ \E features \in Queries, di \in BOOLEAN : Transform(features, di)

Next == Build \/ Query

\* The build in a release profile (no overflow checks): no hamming call panics.
InitRelease == Init /\ ~overflow_checks

BuildRelease ==
  \/ /\ phase = "idle"
     /\ \E features \in TrainSets, k \in KRange, l \in LevelRange : Create(features, k, l)
  \/ ClusterEnter
  \/ LloydRound

NextRelease == BuildRelease \/ Query

SpecRelease == InitRelease /\ [][NextRelease]_vars

\* The build followed by save and load.
NextIO == Build \/ Save \/ Load

SpecIO == Init /\ [][NextIO]_vars

Spec == Init /\ [][Next]_vars

\* The helper functions on their own.
BoWs == SeqsUpTo(0 .. MaxWeight, MaxBow)
SeedSets == SeqsUpTo(Desc, MaxSeedFeatures)
FowRecords(m_k) ==
  [id : 0 .. IdMask,
   features : [1 .. m_k -> {ZeroDesc}],
   table : [1 .. m_k -> [id : 0 .. (2 * LeafFlag - 1), w : 0 .. 1]]]

NextHelpers ==
  /\ helper = NoHelper
  /\ \/ \E x \in Desc, y \in Desc : Hamming(x, y)
     \/ \E self \in BoWs, other \in BoWs : L1(self, other)
     \/ \E m_k \in 1 .. MaxK : \E rec \in FowRecords(m_k) : BlockLoad(rec, m_k)
     \/ \E features \in SeedSets, k \in KRange : InitializeClusters(features, k)

SpecHelpers == Init /\ [][NextHelpers]_vars

\* =================================================================== claims
Called == out.call # "none"

\* All (block index, child index) positions of the vocabulary
ChildPos(voc) ==
  {<<b, c>> \in (1 .. Len(voc.blocks)) \X (1 .. MaxFeatures + 1) :
     c <= Len(voc.blocks[b].children.ids)}
ChildIdAt(voc, p) == voc.blocks[p[1]].children.ids[p[2]]
LeafPos(voc) == {p \in ChildPos(voc) : IsLeafId(ChildIdAt(voc, p))}
BlockPos(voc) == {p \in ChildPos(voc) : IsBlockId(ChildIdAt(voc, p))}
LeafIdOf(n) == n.path[Len(n.path)]

\* C1: for every non-empty feature sequence (k >= 2, levels >= 1) create
\* completes without a panic or failed assertion, and transform of the same
\* sequence on the result returns Ok.
C1_CreateThenTransformNeverFails ==
  /\ (train # <<>> => phase # "panicked")
  /\ (phase = "created" /\ train # <<>> /\ Called /\ out.features = train
        => out.res.kind = "Ok")

\* The word the descent of transform reaches for one descriptor
RoutedWord(voc, f, oc) == Descend(voc, f, 0, <<>>, Len(voc.blocks), oc).word_id

\* C2: on a vocabulary built by create from a non-empty set, transform of a
\* non-empty input returns a BoW of length num_leaves whose entry w is (number
\* of input descriptors routed to word w) / (number of input descriptors), and
\* whose entries sum to 1.
C2_BowCountsRoutedDescriptors ==
  (phase = "created" /\ train # <<>> /\ Called /\ out.features # <<>>) =>
    /\ out.res.kind = "Ok"
    /\ Len(out.res.bow) = v.num_leaves
    /\ \A w \in 1 .. Len(out.res.bow) :
         /\ out.res.bow[w].den = Len(out.features)
         /\ out.res.bow[w].num =
              Cardinality({i \in 1 .. Len(out.features) :
                             RoutedWord(v, out.features[i], overflow_checks) = w - 1})
    /\ SumSeq([w \in 1 .. Len(out.res.bow) |-> out.res.bow[w].num])
         = Len(out.features)

\* C3: transform and transform_with_direct_idx called with an empty feature
\* sequence return the NoFeatures error on every vocabulary, and nothing else
\* (no BoW, no direct index).
C3_EmptyInputIsNoFeatures ==
  (Called /\ out.features = <<>>) => out.res = [kind |-> "NoFeatures"]

C3_Witness ==
  /\ out.call = "transform_with_direct_idx"
  /\ out.features = <<>>
  /\ out.res.kind = "NoFeatures"
  /\ Len(v.blocks) >= 2

\* C4: for every vocabulary v produced by create, load(save(v)) succeeds and
\* returns a vocabulary equal to v (blocks in order with ids, centroids,
\* weights, cluster sizes, child ids and leaf paths; k, levels, num_blocks,
\* num_leaves).
C4_LoadOfSaveIsEqual ==
  loaded.kind \notin {"none", "Io"} => loaded = [kind |-> "Ok", voc |-> v]

C4_Witness ==
  /\ loaded.kind = "Ok"
  /\ loaded.voc = v
  /\ Len(v.blocks) >= 3
  /\ \E p \in LeafPos(v) : Len(ChildIdAt(v, p).path) >= 3
  /\ \E p \in BlockPos(v) : TRUE

C6_LeafPathWithinLevels ==
  /\ phase = "created" => \A p \in LeafPos(v) : Len(ChildIdAt(v, p).path) <= v.levels
  /\ (phase = "created" /\ Called /\ out.res.kind = "Ok") =>
       \A i \in 1 .. Len(out.res.direct_idx) : Len(out.res.direct_idx[i]) <= v.levels

C6_Witness ==
  /\ phase = "created"
  /\ v.levels = 3
  /\ out.call = "transform_with_direct_idx"
  /\ out.res.kind = "Ok"
  /\ \E i \in 1 .. Len(out.res.direct_idx) : Len(out.res.direct_idx[i]) = 3

\* The child a descent step should take: the lowest index among the children
\* at minimum Hamming distance (the true number of differing bits).
NearestChild(f, feats) ==
  CHOOSE c \in 1 .. Len(feats) :
    /\ \A e \in 1 .. Len(feats) : BitDiff(f, feats[c]) <= BitDiff(f, feats[e])
    /\ \A e \in 1 .. (c - 1) : BitDiff(f, feats[e]) > BitDiff(f, feats[c])

\* The ids of the blocks entered below the root, top down, then the leaf id
RECURSIVE NearestPath(_, _, _, _)
NearestPath(voc, f, b, fuel) ==
  LET ch == voc.blocks[b + 1].children
      id == ch.ids[NearestChild(f, ch.features)]
  IN IF IsLeafId(id) \/ fuel = 0 THEN <<LeafIdOf(id)>>
     ELSE <<id.bid>> \o NearestPath(voc, f, id.bid, fuel - 1)

\* C7: on a vocabulary built by create, transform_with_direct_idx returns one
\* DirectIdx entry per input descriptor, in input order, entry i being the ids
\* of the blocks visited for descriptor i (root excluded, top down) followed by
\* the id of the leaf reached, each step taking the lowest-index child among
\* those at minimum Hamming distance.
C7_DirectIdxIsNearestPath ==
  (phase = "created" /\ train # <<>> /\ out.call = "transform_with_direct_idx"
     /\ out.features # <<>>) =>
    /\ out.res.kind = "Ok"
    /\ Len(out.res.direct_idx) = Len(out.features)
    /\ \A i \in 1 .. Len(out.features) :
         /\ out.res.direct_idx[i]
              = out.res.visited[i] \o <<RoutedWord(v, out.features[i], overflow_checks)>>
         /\ out.res.direct_idx[i] = NearestPath(v, out.features[i], 0, Len(v.blocks))

\* C8: for every descriptor d, create([d, d], 2, 1) yields one root Block with
\* exactly one child, a Leaf with cluster_size 2 and centroid d, and
\* transform([d, d]) on it returns a BoW of length 1 whose entry is 1.
C8_TwoIdenticalDescriptors ==
  (Len(train) = 2 /\ train[1] = train[2] /\ v.k = 2 /\ v.levels = 1) =>
    /\ phase # "panicked"
    /\ phase = "created" =>
         /\ Len(v.blocks) = 1
         /\ v.blocks[1].id = NodeBlock(0)
         /\ v.blocks[1].children.features = <<train[1]>>
         /\ v.blocks[1].children.cluster_size = <<2>>
         /\ Len(v.blocks[1].children.ids) = 1
         /\ IsLeafId(v.blocks[1].children.ids[1])
    /\ (phase = "created" /\ Called /\ out.features = train) =>
         /\ out.res.kind = "Ok"
         /\ Len(out.res.bow) = 1
         /\ out.res.bow[1].num = out.res.bow[1].den

\* C9: at every point of a build and in the finished vocabulary, the leaf ids
\* assigned are exactly 0 .. num_leaves-1, each held by exactly one Leaf child,
\* and the non-root block ids assigned are exactly 1 .. num_blocks, each held by
\* exactly one Block child.
C9_IdsAssignedExactlyOnce ==
  /\ {LeafIdOf(ChildIdAt(v, p)) : p \in LeafPos(v)} = 0 .. (v.num_leaves - 1)
  /\ Cardinality(LeafPos(v)) = v.num_leaves
  /\ {ChildIdAt(v, p).bid : p \in BlockPos(v)} = 1 .. v.num_blocks
  /\ Cardinality(BlockPos(v)) = v.num_blocks

C9_Witness ==
  /\ phase = "enter"
  /\ v.num_leaves >= 1
  /\ v.num_blocks >= 2
  /\ Len(v.blocks) = 2

\* C10: create called with an empty feature sequence is rejected; it does not
\* return a vocabulary (in particular not one whose root Block has no children).
C10_EmptyCreateIsRejected ==
  ~(phase = "created" /\ train = <<>>)

\* C11: l1 on two BoW vectors of different lengths has a defined behaviour of
\* its own (such as an error): what it returns is not the score computed over
\* the first min(len(a), len(b)) positions only.
PrefixScore(a, b) ==
  LET n == IF Len(a) < Len(b) THEN Len(a) ELSE Len(b)
      RECURSIVE Sum(_)
      Sum(i) == IF i > n THEN 0
                ELSE (IF a[i] < b[i] THEN b[i] - a[i] ELSE a[i] - b[i]) + Sum(i + 1)
  IN [kind |-> "score", num |-> 2 - Sum(1), den |-> 2]

C11_MismatchedLengthsNotTruncated ==
  (helper.fn = "l1" /\ Len(helper.self) # Len(helper.other))
    => helper.res # PrefixScore(helper.self, helper.other)

\* C12: the legacy block decoder maps every child-table entry by its high
\* bit: set gives a Leaf child, clear gives a Block child, each with the low
\* bits as its id.
C12_ChildKindFollowsHighBit ==
  helper.fn = "Block::load" =>
    \A i \in 1 .. helper.m_k :
      LET id == helper.rec.table[i].id
          got == helper.res.children.ids[i]
      IN IF id >= LeafFlag
         THEN got.tag = "Leaf" /\ got.id = id - LeafFlag
         ELSE got.tag = "Block" /\ got.bid = id

\* C13: the Lloyd loop of cluster terminates: from every state of the loop,
\* finitely many assign / majority-vote rounds reach a partition equal to the
\* previous one (or the call fails outright); the rounds never come back to a
\* state of the loop they have left, which the loop, having no other input,
\* would then repeat for ever.
RECURSIVE LoopEnds(_, _, _, _)
LoopEnds(features, cl, gr, seen) ==
  LET new_groups == Assign(features, cl, Len(gr))
  IN IF overflow_checks /\ AssignOverflows(features, cl) THEN TRUE
     ELSE IF new_groups = gr THEN TRUE
     ELSE IF <<cl, gr>> \in seen THEN FALSE
     ELSE LoopEnds(features, UpdateClusters(features, new_groups), new_groups,
                   seen \cup {<<cl, gr>>})

C13_LloydLoopTerminates ==
  phase = "lloyd" => LoopEnds(frame.features, clusters, groups, {})

\* C14: for every pair of descriptors x and y, hamming(x, y) returns the
\* number of bit positions in which they differ, over the whole range
\* (all bits differing included), without overflow or wrap-around.
C14_HammingCountsDifferingBits ==
  helper.fn = "hamming" =>
    helper.res = [kind |-> "ok", val |-> BitDiff(helper.x, helper.y)]

\* C15: when the set passed to initialize_clusters has at most k distinct
\* descriptors, the centroids returned are exactly the distinct descriptors,
\* each once.
C15_FewDistinctGivesDistinctCentroids ==
  (/\ helper.fn = "initialize_clusters"
   /\ Cardinality(Range(helper.features)) <= helper.k)
    => /\ ~helper.res.panic
       /\ Range(helper.res.clusters) = Range(helper.features)
       /\ Len(helper.res.clusters) = Cardinality(Range(helper.features))

\* C16: when the set has more than k distinct descriptors, kmeans++ seeding
\* never fails: it returns exactly k centroids, pairwise distinct, all taken
\* from the input set.
C16_SeedingReturnsKDistinct ==
  (/\ helper.fn = "initialize_clusters"
   /\ Cardinality(Range(helper.features)) > helper.k)
    => /\ ~helper.res.panic
       /\ Len(helper.res.clusters) = helper.k
       /\ Cardinality(Range(helper.res.clusters)) = helper.k
       /\ Range(helper.res.clusters) \subseteq Range(helper.features)

====
